---- MODULE Spec2Model ----
(***************************************************************************)
(* Model of the PVZ service: the tables pvztable / reception / product     *)
(* (source/db/models.py), the data-access methods (source/db/methods.py)   *)
(* and the HTTP handlers that drive them (source/routers/pvz/actions.py).  *)
(*                                                                         *)
(* Row identities are uuid4 values in the code.  The model allocates them  *)
(* from counters, so that the numeric order of two ids of one table is the *)
(* order in which the rows were inserted.  No modelled code reads that     *)
(* order: the queries order by dateTime only.  It is used by the           *)
(* properties that speak about insertion order.                            *)
(*                                                                         *)
(* dateTime columns default to the database's now().  The database clock   *)
(* is the variable now; it advances by the action Tick, so that two rows   *)
(* inserted without a Tick in between carry the same dateTime.             *)
(***************************************************************************)
EXTENDS Integers, FiniteSets, Sequences, TLC

\* ---------------------------------------------------------------- bounds
\* The number of rows ever inserted, over the three tables.
MaxRows == 5
\* The number of ticks of the database clock.
MaxClock == 2
\* The number of rows ever inserted while requests are served concurrently.
MaxConcurrentRows == 4
\* The number of rows ever inserted in the service that also serves listings.
MaxListedRows == 6
\* The pages and the page sizes (limit) that listing requests name.
MaxPage == 2
MaxLimit == 2

\* ------------------------------------------------------------ enumerations
employee == "employee"
moderator == "moderator"
RoleType == {employee, moderator}

in_progress == "in_progress"
close == "close"
ReceptionStatus == {in_progress, close}

\* "электроника", "одежда", "обувь"
ProductType == {"electonic", "clothes", "shoes"}

\* The pickup point ids that requests name (existing or not).
PvzIds == {1, 2}

\* Python's None for an Optional[Reception] / Optional[Product].
NoReception == [id |-> 0, pvzId |-> 0, dateTime |-> 0, status |-> "none"]
NoProduct == [id |-> 0, receptionId |-> 0, type |-> "none", dateTime |-> 0]

\* ------------------------------------------------- HTTP responses (detail)
HTTP_200_OK == 200
HTTP_201_CREATED == 201
HTTP_400_BAD_REQUEST == 400
HTTP_403_FORBIDDEN == 403

\* "Доступ запрещен"
AccessDenied == "access denied"
\* "Неверный запрос"
BadRequest == "bad request"
\* "Есть незакрытая приемка"
OpenReceptionExists == "open reception exists"
\* "Нет активной приемки"
NoActiveReception == "no active reception"
\* "Приемка уже закрыта или не существует"
AlreadyClosedOrAbsent == "reception already closed or absent"
\* "Нет активной приемки или товаров для удаления"
NoActiveReceptionOrProducts == "no active reception or products to delete"
\* "ПВЗ создан"
PvzCreated == "pvz created"
\* "Приемка создана"
ReceptionCreated == "reception created"
\* "Товар добавлен"
ProductAdded == "product added"
\* "Приемка закрыта"
ReceptionClosed == "reception closed"
\* "Товар удален"
ProductDeleted == "product deleted"
\* "Не осталось товаров"
NoProductsLeft == "no products left"
\* "Неверный формат даты. Ожидается dd.MM.YYYYHH:MM:SS"
BadDateFormat == "bad date format"
\* GET /pvz answers 200 with the list itself and no description.
ResultList == "result_list"

VARIABLES
    pvztable,     \* ids of the rows of table pvztable
    reception,    \* rows of table reception
    product,      \* rows of table product
    productSeq,   \* number of product rows inserted so far (id allocation)
    now,          \* the database clock
    response,     \* the last HTTP response: handler, status code, detail
    listed,       \* the body of the last HTTP response when it is a listing
    pc,           \* per client: the await a client's handler is suspended at
    request,      \* per client: the arguments of the request being served
    last_rec,     \* per client: the handler's local last_rec
    last_prod,    \* per client: delete_last_product_for_reception's last_product
    txStart,      \* per client: the clock when its transaction began
    result,       \* per client: its last HTTP response
    user,         \* rows of table user
    dummy_user    \* per role: the user the last dummy_login of that role got

store == <<pvztable, reception, product, productSeq>>
conc == <<pc, request, last_rec, last_prod, txStart, result>>
auth == <<user, dummy_user>>
vars == <<pvztable, reception, product, productSeq, now, response, listed,
          pc, request, last_rec, last_prod, txStart, result, user, dummy_user>>

Response(op, code, detail) ==
    [op |-> op, code |-> code, detail |-> detail]

NoResponse == Response("none", 0, "none")

\* No listing: the last response was not the body of GET /pvz.
NoListing == [start_date |-> 0, end_date |-> 0, page |-> 0, limit |-> 0,
              result |-> <<>>]

\* ------------------------------------------------------------ db/methods.py
\* ReceptionsOf as it would be without the where clause on pvzId.
ReceptionsOf_AnyPvz(pvz_id) == reception

\* select(Reception).where(Reception.pvzId == pvz_id)
ReceptionsOf(pvz_id) == {r \in reception : r.pvzId = pvz_id}

\* ProductsOf as it would be without the where clause on receptionId.
ProductsOf_AnyReception(reception_id) == product

\* select(Product).where(Product.receptionId == reception_id)
ProductsOf(reception_id) == {p \in product : p.receptionId = reception_id}

\* select(Reception).where(pvzId == pvz_id).order_by(dateTime.desc()), .first():
\* the rows a database may put first are those of maximal dateTime; the order
\* among rows of equal dateTime is not determined by the query.
get_last_reception_by_pvz(pvz_id) ==
    IF ReceptionsOf(pvz_id) = {}
    THEN {NoReception}
    ELSE {r \in ReceptionsOf(pvz_id) :
            \A o \in ReceptionsOf(pvz_id) : o.dateTime <= r.dateTime}

\* select(Product).where(receptionId == reception_id).order_by(dateTime.desc()),
\* .first(): as above.
last_product(reception_id) ==
    IF ProductsOf(reception_id) = {}
    THEN {NoProduct}
    ELSE {p \in ProductsOf(reception_id) :
            \A o \in ProductsOf(reception_id) : o.dateTime <= p.dateTime}

NewPvzId == Cardinality(pvztable) + 1

NewReceptionId == Cardinality(reception) + 1

NewProductId == productSeq + 1

\* PVZTable(city=...); session.add; commit
create_pvz ==
    pvztable' = pvztable \cup {NewPvzId}

\* Reception(pvzId=pvz_id, status=in_progress); dateTime defaults to now()
create_reception_for_pvz(pvz_id, ts) ==
    reception' = reception \cup
        {[id |-> NewReceptionId, pvzId |-> pvz_id, dateTime |-> ts,
          status |-> in_progress]}

\* Reception(pvzId=pvz_id, status=close); dateTime defaults to now()
close_reception_for_pvz(pvz_id, ts) ==
    reception' = reception \cup
        {[id |-> NewReceptionId, pvzId |-> pvz_id, dateTime |-> ts,
          status |-> close]}

\* create_product_for_reception as it would be if the request's type were
\* dropped and every product stored with one fixed type.
create_product_for_reception_FixedType(reception_id, type, ts) ==
    /\ product' = product \cup
        {[id |-> NewProductId, receptionId |-> reception_id, type |-> "electonic",
          dateTime |-> ts]}
    /\ productSeq' = productSeq + 1

\* Product(receptionId=reception_id, type=type); dateTime defaults to now()
create_product_for_reception(reception_id, type, ts) ==
    /\ product' = product \cup
        {[id |-> NewProductId, receptionId |-> reception_id, type |-> type,
          dateTime |-> ts]}
    /\ productSeq' = productSeq + 1

\* session.delete(last_product) when one was found; returns last_product
delete_last_product_for_reception(last) ==
    IF last # NoProduct
    THEN product' = product \ {last}
    ELSE product' = product

\* PVZList(start_date=..., end_date=..., page=..., limit=...)
PVZList(start_date, end_date, page, limit) ==
    [start_date |-> start_date, end_date |-> end_date, page |-> page,
     limit |-> limit]

\* where(status == in_progress, dateTime >= start_date, dateTime <= end_date)
Selected(query_params) ==
    {r \in reception : /\ r.status = in_progress
                       /\ r.dateTime >= query_params.start_date
                       /\ r.dateTime <= query_params.end_date}

\* order_by(Reception.dateTime.desc()): the orders in which a database may
\* return the rows S; rows of equal dateTime come in any order.
RECURSIVE OrderedByDateTimeDesc(_)
OrderedByDateTimeDesc(S) ==
    IF S = {}
    THEN {<<>>}
    ELSE UNION {{<<r>> \o rest : rest \in OrderedByDateTimeDesc(S \ {r})} :
                  r \in {x \in S : \A o \in S : o.dateTime <= x.dateTime}}

\* rec.products (selectinload without order_by): the products in any order.
RECURSIVE InAnyOrder(_)
InAnyOrder(S) ==
    IF S = {}
    THEN {<<>>}
    ELSE UNION {{<<x>> \o rest : rest \in InAnyOrder(S \ {x})} : x \in S}

\* OffsetLimit as it would be if the offset were dropped: every page is the
\* first page.
OffsetLimit_NoOffset(rows, offset_val, limit) ==
    SubSeq(rows, 1, IF limit < Len(rows) THEN limit ELSE Len(rows))

\* .offset(offset_val).limit(limit)
OffsetLimit(rows, offset_val, limit) ==
    SubSeq(rows, offset_val + 1,
           IF offset_val + limit < Len(rows) THEN offset_val + limit ELSE Len(rows))

\* {"reception": rec.id, "product": prod.id} for prod in rec.products
ReceptionProductPairs(rec, products) ==
    [i \in DOMAIN products |-> [reception |-> rec.id, product |-> products[i].id]]

\* setdefault_extend as it would be if every reception opened a group of its
\* own, whether or not its pickup point already has one.
setdefault_extend_GroupPerReception(pvz_group, pvz_id, pairs) ==
    Append(pvz_group, [pvz |-> pvz_id, receptions |-> pairs])

\* pvz_group.setdefault(pvz_id, []).append(...) for every product of one rec;
\* a dict keeps its keys in the order of their first insertion.
setdefault_extend(pvz_group, pvz_id, pairs) ==
    IF pairs = <<>>
    THEN pvz_group
    ELSE IF \E i \in DOMAIN pvz_group : pvz_group[i].pvz = pvz_id
    THEN [i \in DOMAIN pvz_group |->
            IF pvz_group[i].pvz = pvz_id
            THEN [pvz_group[i] EXCEPT !.receptions = @ \o pairs]
            ELSE pvz_group[i]]
    ELSE Append(pvz_group, [pvz |-> pvz_id, receptions |-> pairs])

\* if not rec.products: continue
HasNoProducts(rec) == ProductsOf(rec.id) = {}

\* group_by_pvz as it would be if a reception without products were not
\* skipped and its pickup point got a group even when no pair is added to it.
RECURSIVE group_by_pvz_KeepsEmpty(_, _)
group_by_pvz_KeepsEmpty(receptions, pvz_group) ==
    IF receptions = <<>>
    THEN {pvz_group}
    ELSE LET rec == Head(receptions)
             pvz_id == rec.pvzId
             with_key == IF \E i \in DOMAIN pvz_group : pvz_group[i].pvz = pvz_id
                         THEN pvz_group
                         ELSE Append(pvz_group, [pvz |-> pvz_id, receptions |-> <<>>])
         IN  UNION {group_by_pvz_KeepsEmpty(Tail(receptions),
                        setdefault_extend(with_key, pvz_id,
                            ReceptionProductPairs(rec, products))) :
                      products \in InAnyOrder(ProductsOf(rec.id))}

\* for rec in receptions: ...; result_list = [{"pvz": k, "receptions": v} ...]
RECURSIVE group_by_pvz(_, _)
group_by_pvz(receptions, pvz_group) ==
    IF receptions = <<>>
    THEN {pvz_group}
    ELSE LET rec == Head(receptions)
         IN  IF HasNoProducts(rec)
             THEN group_by_pvz(Tail(receptions), pvz_group)
             ELSE UNION {group_by_pvz(Tail(receptions),
                                      setdefault_extend(pvz_group, rec.pvzId,
                                          ReceptionProductPairs(rec, products))) :
                           products \in InAnyOrder(ProductsOf(rec.id))}

\* The lists get_pvz_receptions_products may return for query_params.
get_pvz_receptions_products(query_params) ==
    LET offset_val == (query_params.page - 1) * query_params.limit
    IN  UNION {group_by_pvz(OffsetLimit(rows, offset_val, query_params.limit), <<>>) :
                 rows \in OrderedByDateTimeDesc(Selected(query_params))}

\* session_execute_select as it would be if the listing purged the close rows.
session_execute_select_Purging ==
    /\ reception' = {r \in reception : r.status = in_progress}
    /\ UNCHANGED <<pvztable, product, productSeq>>

\* get_pvz_receptions_products runs one select: no add, no delete, no commit.
session_execute_select ==
    UNCHANGED <<pvztable, reception, product, productSeq>>

\* Rows inserted so far.
RowsInserted == Cardinality(pvztable) + Cardinality(reception) + productSeq

\* A step is modelled while it leaves at most n rows ever inserted.
RowsWithin(n) == RowsInserted' <= n

ConcurrentRoomForRow == RowsInserted < MaxConcurrentRows

\* PvzForeignKeyHolds as it would be if the database did not enforce the
\* foreign key.
PvzForeignKeyHolds_NotEnforced(pvz_id) == TRUE

\* ForeignKey('pvztable.id') on reception.pvzId: the insert raises otherwise
PvzForeignKeyHolds(pvz_id) == pvz_id \in pvztable

\* --------------------------------------------------- routers/pvz/actions.py
\* HasUnclosedReception as it would be without the test of the status: any
\* earlier reception refuses a new one.
HasUnclosedReception_AnyReception(rec) ==
    rec # NoReception

\* if last_rec and last_rec.status == ReceptionStatus.in_progress
HasUnclosedReception(rec) ==
    rec # NoReception /\ rec.status = in_progress

\* ProductHasNoActiveReception as it would be without the test of the status:
\* only a missing reception refuses a product.
ProductHasNoActiveReception_OnlyAbsent(rec) ==
    rec = NoReception

\* create_product: if not last_rec or last_rec.status == ReceptionStatus.close
ProductHasNoActiveReception(rec) ==
    rec = NoReception \/ rec.status = close

\* close_reception: if not last_rec or last_rec.status == ReceptionStatus.close
CloseHasNoOpenReception(rec) ==
    rec = NoReception \/ rec.status = close

\* DeleteHasNoActiveReception as it would be without the test of the status:
\* the last product of a closed latest reception can still be deleted.
DeleteHasNoActiveReception_OnlyAbsent(rec) ==
    rec = NoReception

\* DeleteHasNoActiveReception as it would be if an open reception without
\* products were refused too (as the handler's detail text suggests).
DeleteHasNoActiveReception_OrNoProducts(rec) ==
    rec = NoReception \/ rec.status = close \/ ProductsOf(rec.id) = {}

\* delete_last_product: if not last_rec or last_rec.status == ReceptionStatus.close
DeleteHasNoActiveReception(rec) ==
    rec = NoReception \/ rec.status = close

Respond(op, code, detail) ==
    /\ response' = Response(op, code, detail)
    /\ listed' = NoListing

\* POST /pvz
create_pvz_(role) ==
    /\ IF role # moderator
       THEN /\ Respond("create_pvz", HTTP_403_FORBIDDEN, AccessDenied)
            /\ UNCHANGED store
       ELSE /\ NewPvzId \in PvzIds
            /\ create_pvz
            /\ Respond("create_pvz", HTTP_201_CREATED, PvzCreated)
            /\ UNCHANGED <<reception, product, productSeq>>
    /\ UNCHANGED <<now, auth, conc>>

\* create_reception as it would be without the check of the caller's role.
create_reception_AnyRole(role, pvz_id) ==
    /\ \E rec \in get_last_reception_by_pvz(pvz_id) :
            IF HasUnclosedReception(rec)
            THEN /\ Respond("create_reception", HTTP_400_BAD_REQUEST,
                            OpenReceptionExists)
                 /\ UNCHANGED store
            ELSE IF ~PvzForeignKeyHolds(pvz_id)
            THEN /\ Respond("create_reception", HTTP_400_BAD_REQUEST,
                            BadRequest)
                 /\ UNCHANGED store
            ELSE /\ create_reception_for_pvz(pvz_id, now)
                 /\ Respond("create_reception", HTTP_201_CREATED,
                            ReceptionCreated)
                 /\ UNCHANGED <<pvztable, product, productSeq>>
    /\ UNCHANGED <<now, auth, conc>>

\* POST /receptions
create_reception(role, pvz_id) ==
    /\ IF role # employee
       THEN /\ Respond("create_reception", HTTP_403_FORBIDDEN, AccessDenied)
            /\ UNCHANGED store
       ELSE \E rec \in get_last_reception_by_pvz(pvz_id) :
            IF HasUnclosedReception(rec)
            THEN /\ Respond("create_reception", HTTP_400_BAD_REQUEST,
                            OpenReceptionExists)
                 /\ UNCHANGED store
            ELSE IF ~PvzForeignKeyHolds(pvz_id)
            THEN /\ Respond("create_reception", HTTP_400_BAD_REQUEST,
                            BadRequest)
                 /\ UNCHANGED store
            ELSE /\ create_reception_for_pvz(pvz_id, now)
                 /\ Respond("create_reception", HTTP_201_CREATED,
                            ReceptionCreated)
                 /\ UNCHANGED <<pvztable, product, productSeq>>
    /\ UNCHANGED <<now, auth, conc>>

\* POST /products
create_product(role, pvz_id, type) ==
    /\ IF role # employee
       THEN /\ Respond("create_product", HTTP_403_FORBIDDEN, AccessDenied)
            /\ UNCHANGED store
       ELSE \E rec \in get_last_reception_by_pvz(pvz_id) :
            IF ProductHasNoActiveReception(rec)
            THEN /\ Respond("create_product", HTTP_400_BAD_REQUEST,
                            NoActiveReception)
                 /\ UNCHANGED store
            ELSE /\ create_product_for_reception(rec.id, type, now)
                 /\ Respond("create_product", HTTP_201_CREATED,
                            ProductAdded)
                 /\ UNCHANGED <<pvztable, reception>>
    /\ UNCHANGED <<now, auth, conc>>

\* POST /pvz/{pvzId}/close_last_reception
close_reception(role, pvz_id) ==
    /\ IF role # employee
       THEN /\ Respond("close_reception", HTTP_403_FORBIDDEN, AccessDenied)
            /\ UNCHANGED store
       ELSE \E rec \in get_last_reception_by_pvz(pvz_id) :
            IF CloseHasNoOpenReception(rec)
            THEN /\ Respond("close_reception", HTTP_400_BAD_REQUEST,
                            AlreadyClosedOrAbsent)
                 /\ UNCHANGED store
            ELSE /\ close_reception_for_pvz(pvz_id, now)
                 /\ Respond("close_reception", HTTP_200_OK,
                            ReceptionClosed)
                 /\ UNCHANGED <<pvztable, product, productSeq>>
    /\ UNCHANGED <<now, auth, conc>>

\* POST /pvz/{pvzId}/delete_last_product
delete_last_product(role, pvz_id) ==
    /\ IF role # employee
       THEN /\ Respond("delete_last_product", HTTP_403_FORBIDDEN,
                       AccessDenied)
            /\ UNCHANGED store
       ELSE \E rec \in get_last_reception_by_pvz(pvz_id) :
            IF DeleteHasNoActiveReception(rec)
            THEN /\ Respond("delete_last_product", HTTP_400_BAD_REQUEST,
                            NoActiveReceptionOrProducts)
                 /\ UNCHANGED store
            ELSE \E deleted \in last_product(rec.id) :
                 /\ delete_last_product_for_reception(deleted)
                 /\ IF deleted # NoProduct
                    THEN Respond("delete_last_product", HTTP_200_OK,
                                 ProductDeleted)
                    ELSE Respond("delete_last_product", HTTP_200_OK,
                                 NoProductsLeft)
                 /\ UNCHANGED <<pvztable, reception, productSeq>>
    /\ UNCHANGED <<now, auth, conc>>

\* A query string that datetime.strptime(..., "%d.%m.%Y%H:%M:%S") rejects; every
\* other date string stands for the instant of the database clock it names.
MalformedDate == 0 - 1

DateStrings == (0 .. MaxClock) \cup {MalformedDate}

\* GET /pvz (any authenticated user)
pvz_list(start_date, end_date, page, limit) ==
    /\ IF start_date = MalformedDate \/ end_date = MalformedDate
       THEN Respond("pvz_list", HTTP_400_BAD_REQUEST, BadDateFormat)
       ELSE \E result_list \in get_pvz_receptions_products(
                                  PVZList(start_date, end_date, page, limit)) :
               /\ response' = Response("pvz_list", HTTP_200_OK, ResultList)
               /\ listed' = [start_date |-> start_date, end_date |-> end_date,
                             page |-> page, limit |-> limit,
                             result |-> result_list]
    /\ session_execute_select
    /\ UNCHANGED <<now, auth, conc>>

\* The handlers suspended at the await of an insert.
InsertPending == {"create_reception", "create_product", "close_reception"}

\* The database clock advances between two statements.  A tick shows only in
\* the dateTime of the rows inserted before and after it, so the clock is
\* advanced only past an instant that some row carries, or that a pending
\* insert may still carry (the start of its transaction).
Tick ==
    /\ now < MaxClock
    /\ \/ \E r \in reception \cup product : r.dateTime = now
       \/ \E c \in DOMAIN pc : pc[c] \in InsertPending /\ txStart[c] = now
    /\ now' = now + 1
    /\ UNCHANGED <<store, auth, response, listed, conc>>

\* ------------------------------------------------------ routers/auth/auth.py
NoUser == [id |-> 0, email |-> "none", role |-> "none"]

dummy_employee_email == "dummy_employee@example.com"

dummy_moderator_email == "dummy_moderator@example.com"

\* The e-mail addresses a registration is tried with: the two dummy addresses
\* and one other.
Emails == {dummy_employee_email, dummy_moderator_email, "user@example.com"}

UserExists == "user exists"

TokenIssued == "token"

NewUserId == Cardinality(user) + 1

\* get_user_by_email: select(User).where(User.email == email), .first()
get_user_by_email(email) ==
    IF \E u \in user : u.email = email
    THEN {u \in user : u.email = email}
    ELSE {NoUser}

\* create_user
create_user(email, role) ==
    user' = user \cup {[id |-> NewUserId, email |-> email, role |-> role]}

\* get_or_create_dummy_user: the pairs <<table after the call, user returned>>.
\* The select filters on the dummy e-mail of the role and on the role; which
\* of several matching rows .first() returns is not determined by the query.
\* With no match the method adds both dummy users and returns the one asked for.
get_or_create_dummy_user(role) ==
    LET email == IF role = moderator THEN dummy_moderator_email
                 ELSE dummy_employee_email
        found == {u \in user : u.email = email /\ u.role = role}
        dummy_employee == [id |-> NewUserId, email |-> dummy_employee_email,
                           role |-> employee]
        dummy_moderator == [id |-> NewUserId + 1,
                            email |-> dummy_moderator_email, role |-> moderator]
        chosen == IF role = moderator THEN dummy_moderator ELSE dummy_employee
    IN  IF found # {}
        THEN {<<user, u>> : u \in found}
        ELSE {<<user \cup {dummy_employee, dummy_moderator}, chosen>>}

\* POST /dummyLogin
dummy_login(role) ==
    /\ \E got \in get_or_create_dummy_user(role) :
          /\ user' = got[1]
          /\ dummy_user' = [dummy_user EXCEPT ![role] = got[2]]
    /\ Respond("dummy_login", HTTP_200_OK, TokenIssued)
    /\ UNCHANGED <<store, now, conc>>

\* POST /register
registration(email, role) ==
    /\ \E existing \in get_user_by_email(email) :
          IF existing # NoUser
          THEN /\ Respond("registration", HTTP_400_BAD_REQUEST, UserExists)
               /\ UNCHANGED user
          ELSE /\ create_user(email, role)
               /\ Respond("registration", HTTP_201_CREATED, TokenIssued)
    /\ UNCHANGED <<store, now, conc, dummy_user>>

\* ------------------------------------------------- the sequential service
\* Requests are served one at a time: each handler runs to its response.
Clients == {1, 2}

NoRequest == [pvz_id |-> 0, type |-> "none"]

Init ==
    /\ pvztable = {}
    /\ reception = {}
    /\ product = {}
    /\ productSeq = 0
    /\ now = 0
    /\ response = NoResponse
    /\ listed = NoListing
    /\ pc = [c \in Clients |-> "idle"]
    /\ request = [c \in Clients |-> NoRequest]
    /\ last_rec = [c \in Clients |-> NoReception]
    /\ last_prod = [c \in Clients |-> NoProduct]
    /\ txStart = [c \in Clients |-> 0]
    /\ result = [c \in Clients |-> NoResponse]
    /\ user = {}
    /\ dummy_user = [role \in RoleType |-> NoUser]

Next ==
    \/ \E role \in RoleType : create_pvz_(role) /\ RowsWithin(MaxRows)
    \/ \E role \in RoleType, pvz_id \in PvzIds :
          create_reception(role, pvz_id) /\ RowsWithin(MaxRows)
    \/ \E role \in RoleType, pvz_id \in PvzIds, type \in ProductType :
          create_product(role, pvz_id, type) /\ RowsWithin(MaxRows)
    \/ \E role \in RoleType, pvz_id \in PvzIds :
          close_reception(role, pvz_id) /\ RowsWithin(MaxRows)
    \/ \E role \in RoleType, pvz_id \in PvzIds : delete_last_product(role, pvz_id)
    \/ Tick

Spec == Init /\ [][Next]_vars

\* ------------------------------------------------- the service of users
AuthNext ==
    \/ \E role \in RoleType : dummy_login(role)
    \/ \E email \in Emails, role \in RoleType : registration(email, role)

AuthSpec == Init /\ [][AuthNext]_vars

\* ------------------------------------ the sequential service with listings
\* The role check of a handler precedes its reads and is explored in the
\* service above; here the callers hold the role their request needs, products
\* are of one type (a listing shows ids only), and GET /pvz is served too.
ListNext ==
    \/ create_pvz_(moderator) /\ RowsWithin(MaxListedRows)
    \/ \E pvz_id \in PvzIds :
          create_reception(employee, pvz_id) /\ RowsWithin(MaxListedRows)
    \/ \E pvz_id \in PvzIds :
          create_product(employee, pvz_id, "shoes") /\ RowsWithin(MaxListedRows)
    \/ \E pvz_id \in PvzIds :
          close_reception(employee, pvz_id) /\ RowsWithin(MaxListedRows)
    \/ \E pvz_id \in PvzIds : delete_last_product(employee, pvz_id)
    \/ \E start_date \in DateStrings, end_date \in DateStrings,
          page \in 1 .. MaxPage, limit \in 1 .. MaxLimit :
          pvz_list(start_date, end_date, page, limit)
    \/ Tick

ListSpec == Init /\ [][ListNext]_vars

\* ------------------------------- the sequential service on a failing store
\* The awaits of a db method at which the connection can time out or drop:
\* session.execute of a select, session.commit of the insert or delete, and
\* session.refresh of the inserted row, which runs after the commit.
StorageFaults == {"execute", "commit", "refresh"}

\* The outcome of a db method whose await `at` raised: nothing is written
\* unless the commit had already returned, in which case `write` has happened.
Raised(at, write) ==
    \/ at = "commit" /\ UNCHANGED store
    \/ at = "refresh" /\ write

\* create_reception: except Exception (the session raised at `at`)
create_reception_except(pvz_id, at) ==
    /\ \/ at = "execute" /\ UNCHANGED store
       \/ \E rec \in get_last_reception_by_pvz(pvz_id) :
             /\ ~HasUnclosedReception(rec)
             /\ PvzForeignKeyHolds(pvz_id)
             /\ Raised(at, /\ create_reception_for_pvz(pvz_id, now)
                           /\ UNCHANGED <<pvztable, product, productSeq>>)
    /\ Respond("create_reception", HTTP_400_BAD_REQUEST, BadRequest)
    /\ UNCHANGED <<now, auth, conc>>

\* create_product: except Exception (the session raised at `at`)
create_product_except(pvz_id, type, at) ==
    /\ \/ at = "execute" /\ UNCHANGED store
       \/ \E rec \in get_last_reception_by_pvz(pvz_id) :
             /\ ~ProductHasNoActiveReception(rec)
             /\ Raised(at, /\ create_product_for_reception(rec.id, type, now)
                           /\ UNCHANGED <<pvztable, reception>>)
    /\ Respond("create_product", HTTP_400_BAD_REQUEST, BadRequest)
    /\ UNCHANGED <<now, auth, conc>>

\* close_reception: except Exception (the session raised at `at`)
close_reception_except(pvz_id, at) ==
    /\ \/ at = "execute" /\ UNCHANGED store
       \/ \E rec \in get_last_reception_by_pvz(pvz_id) :
             /\ ~CloseHasNoOpenReception(rec)
             /\ Raised(at, /\ close_reception_for_pvz(pvz_id, now)
                           /\ UNCHANGED <<pvztable, product, productSeq>>)
    /\ Respond("close_reception", HTTP_400_BAD_REQUEST, BadRequest)
    /\ UNCHANGED <<now, auth, conc>>

\* delete_last_product: except Exception.  The db method selects, deletes and
\* commits, and refreshes nothing: a raise leaves the product in place.
delete_last_product_except(pvz_id, at) ==
    /\ at \in {"execute", "commit"}
    /\ \/ at = "execute"
       \/ \E rec \in get_last_reception_by_pvz(pvz_id) :
             /\ ~DeleteHasNoActiveReception(rec)
             /\ last_product(rec.id) # {NoProduct}
    /\ UNCHANGED store
    /\ Respond("delete_last_product", HTTP_400_BAD_REQUEST, BadRequest)
    /\ UNCHANGED <<now, auth, conc>>

FaultNext ==
    \/ create_pvz_(moderator) /\ RowsWithin(MaxRows)
    \/ \E pvz_id \in PvzIds :
          create_reception(employee, pvz_id) /\ RowsWithin(MaxRows)
    \/ \E pvz_id \in PvzIds, type \in ProductType :
          create_product(employee, pvz_id, type) /\ RowsWithin(MaxRows)
    \/ \E pvz_id \in PvzIds :
          close_reception(employee, pvz_id) /\ RowsWithin(MaxRows)
    \/ \E pvz_id \in PvzIds : delete_last_product(employee, pvz_id)
    \/ \E pvz_id \in PvzIds, at \in StorageFaults :
          create_reception_except(pvz_id, at) /\ RowsWithin(MaxRows)
    \/ \E pvz_id \in PvzIds, type \in ProductType, at \in StorageFaults :
          create_product_except(pvz_id, type, at) /\ RowsWithin(MaxRows)
    \/ \E pvz_id \in PvzIds, at \in StorageFaults :
          close_reception_except(pvz_id, at) /\ RowsWithin(MaxRows)
    \/ \E pvz_id \in PvzIds, at \in StorageFaults :
          delete_last_product_except(pvz_id, at)
    \/ Tick

FaultSpec == Init /\ [][FaultNext]_vars

\* ------------------------------------------------- the concurrent service
\* Each request is its own unit of work (FastAPI runs the handlers as
\* coroutines, each with its own AsyncSession); a handler can be suspended at
\* every await of a db/methods.py call, and other requests run meanwhile.
\* One action below is the code of a handler from one await to the next.

Reply(c, op, code, detail) ==
    result' = [result EXCEPT ![c] = Response(op, code, detail)]

Goto(c, label) ==
    pc' = [pc EXCEPT ![c] = label]

\* The handler returns: its arguments and locals are gone.
Return(c) ==
    /\ pc' = [pc EXCEPT ![c] = "idle"]
    /\ last_rec' = [last_rec EXCEPT ![c] = NoReception]
    /\ last_prod' = [last_prod EXCEPT ![c] = NoProduct]
    /\ txStart' = [txStart EXCEPT ![c] = 0]
    /\ request' = [request EXCEPT ![c] = NoRequest]

\* The request arrives: role check, then await get_last_reception_by_pvz,
\* which returned rec, and the handler's check of it (refused).
Arrive(c, op, role, pvz_id, type, rec, refused, detail) ==
    /\ pc[c] = "idle"
    /\ IF role # employee
       THEN /\ Reply(c, op, HTTP_403_FORBIDDEN, AccessDenied)
            /\ UNCHANGED <<pc, last_rec, txStart, request>>
       ELSE IF refused
       THEN /\ Reply(c, op, HTTP_400_BAD_REQUEST, detail)
            /\ UNCHANGED <<pc, last_rec, txStart, request>>
       ELSE /\ last_rec' = [last_rec EXCEPT ![c] = rec]
            /\ request' = [request EXCEPT ![c] = [pvz_id |-> pvz_id, type |-> type]]
            /\ txStart' = [txStart EXCEPT ![c] = now]
            /\ Goto(c, op)
            /\ UNCHANGED result
    /\ UNCHANGED <<store, now, auth, response, listed, last_prod>>

\* now() is the start of the transaction (PostgreSQL) or the time of the
\* statement (SQLite's CURRENT_TIMESTAMP).
InsertTime(c) == {txStart[c], now}

create_pvz_request(c, role) ==
    /\ pc[c] = "idle"
    /\ UNCHANGED request
    /\ IF role # moderator
       THEN /\ Reply(c, "create_pvz", HTTP_403_FORBIDDEN, AccessDenied)
            /\ UNCHANGED store
       ELSE /\ ConcurrentRoomForRow /\ NewPvzId \in PvzIds
            /\ create_pvz
            /\ Reply(c, "create_pvz", HTTP_201_CREATED, PvzCreated)
            /\ UNCHANGED <<reception, product, productSeq>>
    /\ UNCHANGED <<now, auth, response, listed, pc, last_rec, last_prod, txStart>>

create_reception_request(c, role, pvz_id) ==
    \E rec \in get_last_reception_by_pvz(pvz_id) :
       Arrive(c, "create_reception", role, pvz_id, "none",
              rec, HasUnclosedReception(rec), OpenReceptionExists)

\* await create_reception_for_pvz(db, pvz_id)
create_reception_insert(c) ==
    /\ pc[c] = "create_reception"
    /\ IF ~PvzForeignKeyHolds(request[c].pvz_id)
       THEN /\ Reply(c, "create_reception", HTTP_400_BAD_REQUEST, BadRequest)
            /\ UNCHANGED store
       ELSE /\ ConcurrentRoomForRow
            /\ \E ts \in InsertTime(c) :
                  create_reception_for_pvz(request[c].pvz_id, ts)
            /\ Reply(c, "create_reception", HTTP_201_CREATED, ReceptionCreated)
            /\ UNCHANGED <<pvztable, product, productSeq>>
    /\ Return(c)
    /\ UNCHANGED <<now, auth, response, listed>>

create_product_request(c, role, pvz_id, type) ==
    \E rec \in get_last_reception_by_pvz(pvz_id) :
       Arrive(c, "create_product", role, pvz_id, type,
              rec, ProductHasNoActiveReception(rec), NoActiveReception)

\* await create_product_for_reception(db, last_rec.id, product)
create_product_insert(c) ==
    /\ pc[c] = "create_product"
    /\ ConcurrentRoomForRow
    /\ \E ts \in InsertTime(c) :
          create_product_for_reception(last_rec[c].id, request[c].type, ts)
    /\ Reply(c, "create_product", HTTP_201_CREATED, ProductAdded)
    /\ Return(c)
    /\ UNCHANGED <<pvztable, reception, now, auth, response, listed>>

close_reception_request(c, role, pvz_id) ==
    \E rec \in get_last_reception_by_pvz(pvz_id) :
       Arrive(c, "close_reception", role, pvz_id, "none",
              rec, CloseHasNoOpenReception(rec), AlreadyClosedOrAbsent)

\* await close_reception_for_pvz(db, pvz_id)
close_reception_insert(c) ==
    /\ pc[c] = "close_reception"
    /\ ConcurrentRoomForRow
    /\ \E ts \in InsertTime(c) :
          close_reception_for_pvz(request[c].pvz_id, ts)
    /\ Reply(c, "close_reception", HTTP_200_OK, ReceptionClosed)
    /\ Return(c)
    /\ UNCHANGED <<pvztable, product, productSeq, now, auth, response, listed>>

delete_last_product_request(c, role, pvz_id) ==
    \E rec \in get_last_reception_by_pvz(pvz_id) :
       Arrive(c, "delete_last_product", role, pvz_id, "none",
              rec, DeleteHasNoActiveReception(rec), NoActiveReceptionOrProducts)

\* delete_last_product_for_reception: await session.execute(select(Product)...)
delete_last_product_select(c) ==
    /\ pc[c] = "delete_last_product"
    /\ \E deleted \in last_product(last_rec[c].id) :
          IF deleted # NoProduct
          THEN /\ last_prod' = [last_prod EXCEPT ![c] = deleted]
               /\ Goto(c, "delete_last_product_delete")
               /\ UNCHANGED <<result, last_rec, txStart, request>>
          ELSE /\ Reply(c, "delete_last_product", HTTP_200_OK, NoProductsLeft)
               /\ Return(c)
    /\ UNCHANGED <<store, now, auth, response, listed>>

\* delete_last_product_for_reception: await session.delete; await session.commit.
\* A DELETE that matches no row (the row is already gone) is not an error.
delete_last_product_delete(c) ==
    /\ pc[c] = "delete_last_product_delete"
    /\ delete_last_product_for_reception(last_prod[c])
    /\ Reply(c, "delete_last_product", HTTP_200_OK, ProductDeleted)
    /\ Return(c)
    /\ UNCHANGED <<pvztable, reception, productSeq, now, auth, response, listed>>

\* The role check precedes every await, so a refused role is one step of one
\* request and is explored in the sequential service; here the callers hold
\* the role their request needs, and products are of one type.
ConcNext ==
    \/ \E c \in Clients : create_pvz_request(c, moderator)
    \/ \E c \in Clients, pvz_id \in PvzIds :
          create_reception_request(c, employee, pvz_id)
    \/ \E c \in Clients : create_reception_insert(c)
    \/ \E c \in Clients, pvz_id \in PvzIds :
          create_product_request(c, employee, pvz_id, "shoes")
    \/ \E c \in Clients : create_product_insert(c)
    \/ \E c \in Clients, pvz_id \in PvzIds :
          close_reception_request(c, employee, pvz_id)
    \/ \E c \in Clients : close_reception_insert(c)
    \/ \E c \in Clients, pvz_id \in PvzIds :
          delete_last_product_request(c, employee, pvz_id)
    \/ \E c \in Clients : delete_last_product_select(c)
    \/ \E c \in Clients : delete_last_product_delete(c)
    \/ Tick

ConcSpec == Init /\ [][ConcNext]_vars

\* ================================================================ properties
\* "P's latest reception": the reception of P with the maximum dateTime.  When
\* several receptions of P carry the maximum dateTime these are all of them.
LatestReceptions(p) ==
    {r \in reception : /\ r.pvzId = p
                       /\ \A o \in reception : o.pvzId = p => o.dateTime <= r.dateTime}

\* P has no reception, or its latest reception is closed.
LatestAbsentOrClosed(p) == \A r \in LatestReceptions(p) : r.status = close

\* P has a reception and its latest reception is open.
LatestOpen(p) ==
    /\ LatestReceptions(p) # {}
    /\ \A r \in LatestReceptions(p) : r.status = in_progress

OpenReceptions(p) == {r \in reception : r.pvzId = p /\ r.status = in_progress}

\* The product of a reception that was inserted last.
NewestProducts(reception_id) ==
    {d \in product : /\ d.receptionId = reception_id
                     /\ \A o \in product : o.receptionId = reception_id => o.id <= d.id}

StoreUnchanged == UNCHANGED <<pvztable, reception, product>>

Answered(op, code, detail) == response' = Response(op, code, detail)

\* The step is one of handler op: every handler names itself in its response.
\* The formulas below test this first and the handler's action after it.
Serves(op) == response'.op = op

\* C1: in every reachable state each pickup point has at most one reception
\* whose status is in_progress.
C1_AtMostOneOpenReception ==
    \A p \in PvzIds : Cardinality(OpenReceptions(p)) <= 1

\* C2: when the last calls of both clients are create_reception calls that ran
\* to an answer of "created" or "open reception exists", all for one pickup
\* point that had no reception before them (the table holds exactly the rows
\* these calls inserted), exactly one of them was answered "created" and the
\* other "open reception exists".
C2_ConcurrentOpenExactlyOneSucceeds ==
    LET created == {c \in Clients :
                      result[c] = Response("create_reception", HTTP_201_CREATED,
                                           ReceptionCreated)}
        conflict == {c \in Clients :
                      result[c] = Response("create_reception", HTTP_400_BAD_REQUEST,
                                           OpenReceptionExists)}
    IN  ( /\ \A c \in Clients : pc[c] = "idle"
          /\ created \cup conflict = Clients
          /\ Cardinality(reception) = Cardinality(created)
          /\ \A r1, r2 \in reception : r1.pvzId = r2.pvzId )
        => Cardinality(created) = 1

\* C3: a successful close_reception for P turns the open reception of P into a
\* closed one (same id), inserts no reception row, and leaves P without a
\* reception whose status is in_progress.
C3_CloseUpdatesOpenReception ==
    [][\A p \in PvzIds :
         (close_reception(employee, p) /\ response'.code = HTTP_200_OK)
         => /\ Cardinality(reception') = Cardinality(reception)
            /\ \E r \in OpenReceptions(p) :
                  [r EXCEPT !.status = close] \in reception'
            /\ \A r \in reception' : r.pvzId = p => r.status # in_progress
      ]_vars

\* C4: create_reception for an existing pickup point P answers "created" and
\* inserts one in_progress reception of P when P has no reception or its
\* latest reception is closed; it answers "open reception exists" and leaves
\* the store unchanged when the latest reception of P is open; and it gives
\* each answer only if a latest reception allows it.
C4_OpenSucceedsIffNoOpenLatest ==
    [][\A p \in PvzIds :
         (Serves("create_reception") /\ create_reception(employee, p)
            /\ p \in pvztable)
         => /\ LatestAbsentOrClosed(p)
                 => /\ Answered("create_reception", HTTP_201_CREATED, ReceptionCreated)
                    /\ \E r \in reception' \ reception :
                          /\ reception' = reception \cup {r}
                          /\ r.pvzId = p /\ r.status = in_progress
            /\ LatestOpen(p)
                 => /\ Answered("create_reception", HTTP_400_BAD_REQUEST,
                                OpenReceptionExists)
                    /\ StoreUnchanged
            /\ response'.code = HTTP_201_CREATED
                 => \/ LatestReceptions(p) = {}
                    \/ \E r \in LatestReceptions(p) : r.status = close
            /\ response'.code # HTTP_201_CREATED
                 => /\ \E r \in LatestReceptions(p) : r.status = in_progress
                    /\ Answered("create_reception", HTTP_400_BAD_REQUEST,
                                OpenReceptionExists)
                    /\ StoreUnchanged
      ]_vars

\* C4 witness: a create_reception was answered "open reception exists" while
\* the latest reception of an existing pickup point is open.
C4_Witness ==
    /\ response = Response("create_reception", HTTP_400_BAD_REQUEST, OpenReceptionExists)
    /\ \E p \in pvztable : LatestOpen(p)

\* The previous request was a successful close_reception for P: it answered
\* "closed" and the row it inserted, the newest of the table, is P's.
JustClosed(p) ==
    /\ response = Response("close_reception", HTTP_200_OK, ReceptionClosed)
    /\ \E r \in reception : r.id = Cardinality(reception) /\ r.pvzId = p

\* C5: close_reception for P answers "already closed or absent" and leaves the
\* store unchanged whenever P has no reception or its latest reception is
\* closed, and whenever it directly follows a successful close_reception for P.
C5_CloseRefusedWithoutOpenReception ==
    [][\A p \in PvzIds :
         ( /\ close_reception(employee, p)
           /\ (LatestAbsentOrClosed(p) \/ JustClosed(p)) )
         => /\ Answered("close_reception", HTTP_400_BAD_REQUEST, AlreadyClosedOrAbsent)
            /\ StoreUnchanged
      ]_vars

\* C6: create_product for P answers "no active reception" and inserts nothing
\* whenever P has no reception or its latest reception is closed.
C6_NoProductWithoutOpenReception ==
    [][\A p \in PvzIds, t \in ProductType :
         (Serves("create_product") /\ create_product(employee, p, t)
            /\ LatestAbsentOrClosed(p))
         => /\ Answered("create_product", HTTP_400_BAD_REQUEST, NoActiveReception)
            /\ StoreUnchanged
      ]_vars

\* C6 witness: a create_product was refused while an existing pickup point has
\* a closed latest reception.
C6_Witness ==
    /\ response = Response("create_product", HTTP_400_BAD_REQUEST, NoActiveReception)
    /\ \E p \in pvztable : LatestReceptions(p) # {} /\ LatestAbsentOrClosed(p)

\* C7: a create_product for P of type t that answers "added" inserts exactly
\* one product, with a fresh id, of type t, owned by an open latest reception
\* of P, and changes no other product, no reception and no pickup point.
C7_AddCreatesOneProduct ==
    [][\A p \in PvzIds, t \in ProductType :
         (Serves("create_product") /\ create_product(employee, p, t)
            /\ response'.code = HTTP_201_CREATED)
         => /\ \E new \in product' \ product :
                  /\ product' = product \cup {new}
                  /\ new.type = t
                  /\ \A o \in product : o.id # new.id
                  /\ \E r \in LatestReceptions(p) :
                        r.status = in_progress /\ new.receptionId = r.id
            /\ reception' = reception
            /\ pvztable' = pvztable
      ]_vars

\* C7 witness: a product was added to a reception that already held one.
C7_Witness ==
    /\ response = Response("create_product", HTTP_201_CREATED, ProductAdded)
    /\ \E a, b \in product : a.id < b.id /\ a.receptionId = b.receptionId

\* C8: delete_last_product for P, served on the open latest reception of P,
\* deletes the product of that reception that was added last, and answers
\* "no products left" (deleting nothing) once the reception holds none.
C8_RemovalIsLifo ==
    [][\A p \in PvzIds :
         (delete_last_product(employee, p) /\ response'.code = HTTP_200_OK)
         => \E r \in LatestReceptions(p) :
               /\ r.status = in_progress
               /\ IF ProductsOf(r.id) = {}
                  THEN /\ response'.detail = NoProductsLeft
                       /\ product' = product
                  ELSE /\ response'.detail = ProductDeleted
                       /\ product' = product \ NewestProducts(r.id)
      ]_vars

\* C9: when delete_last_product deletes a product, no remaining product of the
\* same reception with the same dateTime was inserted after it.
C9_TimestampTiesBrokenByInsertionOrder ==
    [][\A p \in PvzIds :
         delete_last_product(employee, p)
         => \A d \in product \ product' :
               \A o \in product' :
                  (o.receptionId = d.receptionId /\ o.dateTime = d.dateTime)
                  => o.id < d.id
      ]_vars

\* C10: delete_last_product for P, whose latest reception is open and holds no
\* product, answers 200 "no products left" and leaves the store unchanged (so
\* the next call finds the same state and answers the same).
C10_EmptyRemovalReturnsNone ==
    [][\A p \in PvzIds :
         ( /\ Serves("delete_last_product")
           /\ delete_last_product(employee, p)
           /\ LatestOpen(p)
           /\ \A r \in LatestReceptions(p) : ProductsOf(r.id) = {} )
         => /\ Answered("delete_last_product", HTTP_200_OK, NoProductsLeft)
            /\ StoreUnchanged
            /\ productSeq' = productSeq
      ]_vars

\* C10 witness: "no products left" was answered while the open latest
\* reception of an existing pickup point is empty and another reception
\* holds a product.
C10_Witness ==
    /\ response = Response("delete_last_product", HTTP_200_OK, NoProductsLeft)
    /\ \E p \in pvztable :
          /\ LatestOpen(p)
          /\ \A r \in LatestReceptions(p) : ProductsOf(r.id) = {}
    /\ product # {}

\* C11: delete_last_product for P answers 400 "no active reception or products
\* to delete" and deletes no product whenever P has no reception or its latest
\* reception is closed, whatever products the receptions of P hold.
C11_RemovalRefusedWithoutOpenReception ==
    [][\A p \in PvzIds :
         (Serves("delete_last_product") /\ delete_last_product(employee, p)
            /\ LatestAbsentOrClosed(p))
         => /\ Answered("delete_last_product", HTTP_400_BAD_REQUEST,
                        NoActiveReceptionOrProducts)
            /\ product' = product
            /\ StoreUnchanged
      ]_vars

\* C11 witness: a delete_last_product was refused while the latest reception
\* of a pickup point is closed and an earlier reception of it holds a product.
C11_Witness ==
    /\ response = Response("delete_last_product", HTTP_400_BAD_REQUEST,
                           NoActiveReceptionOrProducts)
    /\ \E p \in pvztable :
          /\ LatestReceptions(p) # {} /\ LatestAbsentOrClosed(p)
          /\ \E r \in ReceptionsOf(p) :
                r \notin LatestReceptions(p) /\ ProductsOf(r.id) # {}

\* C12: a successful close_reception for P leaves the reception R it closed
\* (an open latest reception of P) with a status other than in_progress; and
\* when R is the only in_progress row of P, the create_product for P that
\* directly follows the close adds no product (it could only add one to R).
C12_ClosedReceptionStaysClosed ==
    [][\A p \in PvzIds :
         /\ (close_reception(employee, p) /\ response'.code = HTTP_200_OK)
            => \E r \in LatestReceptions(p) :
                  /\ r.status = in_progress
                  /\ \A o \in reception' : o.id = r.id => o.status # in_progress
         /\ \A t \in ProductType :
               ( /\ JustClosed(p)
                 /\ Cardinality(OpenReceptions(p)) = 1
                 /\ create_product(employee, p, t) )
               => product' = product
      ]_vars

\* The previous request was a successful create_reception for P: it answered
\* "created" and the row it inserted, the newest of the table, is P's.
JustOpened(p) ==
    /\ response = Response("create_reception", HTTP_201_CREATED, ReceptionCreated)
    /\ \E r \in reception : r.id = Cardinality(reception) /\ r.pvzId = p

\* C13: the create_reception for P that directly follows a successful
\* close_reception for P answers "created" and inserts one in_progress
\* reception of P whose id no earlier reception has; and a create_product for
\* P that directly follows a successful create_reception for P adds a product
\* owned by the reception just created.
C13_ReopenCreatesNewReception ==
    [][\A p \in PvzIds :
         /\ (JustClosed(p) /\ create_reception(employee, p))
            => /\ Answered("create_reception", HTTP_201_CREATED, ReceptionCreated)
               /\ \E r \in reception' \ reception :
                     /\ reception' = reception \cup {r}
                     /\ r.pvzId = p /\ r.status = in_progress
                     /\ \A o \in reception : o.id # r.id
         /\ \A t \in ProductType :
               (JustOpened(p) /\ create_product(employee, p, t))
               => \E new \in product' \ product :
                     /\ product' = product \cup {new}
                     /\ new.receptionId = Cardinality(reception)
      ]_vars

\* ------------------------------------------------------------ GET /pvz
\* A listing was answered and no request was served since.
Listed == listed # NoListing

\* The (reception, product) pairs of a result list, over all its groups.
ListedPairs(result_list) ==
    UNION {{result_list[i].receptions[j] : j \in DOMAIN result_list[i].receptions} :
             i \in DOMAIN result_list}

\* The receptions that appear in a result list.
ListedReceptions(result_list) ==
    {r \in reception : \E pr \in ListedPairs(result_list) : pr.reception = r.id}

\* R is a reception that a successful close_reception has closed: it is the
\* only in_progress row of its pickup point and a close row was inserted for
\* that pickup point after it.
HasBeenClosed(r) ==
    /\ r.status = in_progress
    /\ OpenReceptions(r.pvzId) = {r}
    /\ \E c \in reception : c.pvzId = r.pvzId /\ c.status = close /\ c.id > r.id

\* C14: every reception in a listing has status in_progress and a dateTime
\* within [start_date, end_date], and is not a reception that close_reception
\* has closed.
C14_ListingShowsOnlyOpenReceptions ==
    Listed =>
      \A r \in ListedReceptions(listed.result) :
         /\ r.status = in_progress
         /\ listed.start_date <= r.dateTime /\ r.dateTime <= listed.end_date
         /\ ~HasBeenClosed(r)

\* The query of the listing just answered.
ListedQuery == PVZList(listed.start_date, listed.end_date, listed.page, listed.limit)

\* The pickup points that have a group in a result list.
ListedPvz(result_list) == {result_list[i].pvz : i \in DOMAIN result_list}

\* C15: in a listing no group is empty, every pair names a selected reception
\* and one of its products, and so a reception without products is in no pair
\* and a pickup point whose selected receptions all have no products has no
\* group.
C15_EmptyReceptionsAreOmitted ==
    Listed =>
      /\ \A i \in DOMAIN listed.result : listed.result[i].receptions # <<>>
      /\ \A pr \in ListedPairs(listed.result) :
            \E r \in Selected(ListedQuery) :
               r.id = pr.reception /\ \E d \in ProductsOf(r.id) : d.id = pr.product
      /\ \A r \in Selected(ListedQuery) :
            ProductsOf(r.id) = {} => r \notin ListedReceptions(listed.result)
      /\ \A p \in PvzIds :
            (\A r \in Selected(ListedQuery) : r.pvzId = p => ProductsOf(r.id) = {})
            => p \notin ListedPvz(listed.result)

\* C15 witness: a listing of the first page with limit 2 shows one group
\* while a second pickup point has a selected reception without products.
C15_Witness ==
    /\ Listed /\ listed.page = 1 /\ listed.limit = 2
    /\ Len(listed.result) = 1
    /\ \E r \in Selected(ListedQuery) :
          /\ ProductsOf(r.id) = {}
          /\ r.pvzId \notin ListedPvz(listed.result)
          /\ Cardinality(Selected(ListedQuery)) = 2

\* The number of pairs of a result list that equal pr, over all its groups.
TimesListed(result_list, pr) ==
    Cardinality({ij \in UNION {{<<i, j>> : j \in DOMAIN result_list[i].receptions} :
                                 i \in DOMAIN result_list} :
                   result_list[ij[1]].receptions[ij[2]] = pr})

\* The pairs (reception, product) of the products of the receptions of S.
PairsOf(S) ==
    {[reception |-> d.receptionId, product |-> d.id] :
       d \in {x \in product : \E r \in S : x.receptionId = r.id}}

\* C16: in a listing no two groups are of one pickup point; the receptions
\* shown (the selected receptions that have products) are shown with every
\* one of their products, each pair once and in the group of the reception's
\* pickup point; so each pickup point among them has exactly one group, which
\* holds exactly the pairs of its receptions shown.
C16_OneGroupPerPickupPoint ==
    Listed =>
      LET result_list == listed.result
          shown == ListedReceptions(result_list)
      IN  /\ \A i, j \in DOMAIN result_list :
                result_list[i].pvz = result_list[j].pvz => i = j
          /\ shown \subseteq {r \in Selected(ListedQuery) : ProductsOf(r.id) # {}}
          /\ ListedPvz(result_list) = {r.pvzId : r \in shown}
          /\ ListedPairs(result_list) = PairsOf(shown)
          /\ \A pr \in ListedPairs(result_list) : TimesListed(result_list, pr) = 1
          /\ \A i \in DOMAIN result_list :
                {result_list[i].receptions[j] : j \in DOMAIN result_list[i].receptions}
                  = PairsOf({r \in shown : r.pvzId = result_list[i].pvz})
          /\ Cardinality(Selected(ListedQuery)) <= listed.limit /\ listed.page = 1
                => shown = {r \in Selected(ListedQuery) : ProductsOf(r.id) # {}}

\* C16 witness: a listing with two groups.
C16_Witness ==
    /\ Listed
    /\ Len(listed.result) = 2
    /\ Cardinality(ListedPairs(listed.result)) = 2

\* The selected receptions have pairwise distinct dateTimes.
DistinctTimestamps(S) ==
    \A r1, r2 \in S : r1.dateTime = r2.dateTime => r1 = r2

\* The first n receptions of S in descending order of dateTime.
FirstByDateTimeDesc(S, n) ==
    {r \in S : Cardinality({o \in S : o.dateTime > r.dateTime}) < n}

WithProducts(S) == {r \in S : ProductsOf(r.id) # {}}

\* The lists that the request for page 2 returns for the dates and limit of
\* the listing just answered, on the same tables.
SecondPage ==
    get_pvz_receptions_products(PVZList(listed.start_date, listed.end_date, 2,
                                        listed.limit))

\* C17 as stated: when the selected receptions have distinct dateTimes, the
\* receptions shown by page 1 and those shown by page 2 (same dates, same
\* limit N) are disjoint, every one of page 1 is later than every one of page
\* 2, and together they are the first 2N selected receptions.
C17_PagesCoverFirstMatching ==
    (Listed /\ listed.page = 1 /\ DistinctTimestamps(Selected(ListedQuery))) =>
      \A second \in SecondPage :
         LET one == ListedReceptions(listed.result)
             two == ListedReceptions(second)
         IN  /\ one \cap two = {}
             /\ \A a \in one, b \in two : a.dateTime > b.dateTime
             /\ one \cup two =
                   FirstByDateTimeDesc(Selected(ListedQuery), 2 * listed.limit)

\* C17 amended: as above, but the two pages together show those of the first
\* 2N selected receptions that have products: page 1 those among the first N,
\* page 2 those among the next N.
C17_PagesPartitionFirstMatchingWithProducts ==
    (Listed /\ listed.page = 1 /\ DistinctTimestamps(Selected(ListedQuery))) =>
      \A second \in SecondPage :
         LET one == ListedReceptions(listed.result)
             two == ListedReceptions(second)
             first == FirstByDateTimeDesc(Selected(ListedQuery), listed.limit)
             both == FirstByDateTimeDesc(Selected(ListedQuery), 2 * listed.limit)
         IN  /\ one \cap two = {}
             /\ \A a \in one, b \in two : a.dateTime > b.dateTime
             /\ one = WithProducts(first)
             /\ two = WithProducts(both \ first)
             /\ one \cup two = WithProducts(both)

\* C17 witness: page 1 with limit 1 was answered with one reception while a
\* second selected reception with products, of another dateTime, is left for
\* page 2.
C17_Witness ==
    /\ Listed /\ listed.page = 1 /\ listed.limit = 1
    /\ DistinctTimestamps(Selected(ListedQuery))
    /\ Cardinality(WithProducts(Selected(ListedQuery))) = 2
    /\ Cardinality(ListedReceptions(listed.result)) = 1
    /\ \E second \in SecondPage : Cardinality(ListedReceptions(second)) = 1

\* C18: every step after which the last response is one of GET /pvz (every
\* pvz_list step, whatever its dates, page and limit and whatever it answers)
\* leaves the pickup points, the receptions and the products as they were.
C18_ListingIsReadOnly ==
    [][response'.op = "pvz_list"
         => /\ pvztable' = pvztable
            /\ reception' = reception
            /\ product' = product
            /\ productSeq' = productSeq
      ]_vars

\* C18 witness: a listing that shows a product was answered while the tables
\* hold a close row as well.
C18_Witness ==
    /\ Listed /\ response.op = "pvz_list"
    /\ listed.result # <<>>
    /\ \E c \in reception : c.status = close

\* The ledger of a reception: the types of its products among the rows
\* products, in the order in which they were inserted.
Ledger(products, reception_id) ==
    LET S == {d \in products : d.receptionId = reception_id}
        inOrder == CHOOSE f \in [1 .. Cardinality(S) -> S] :
                      \A i, j \in 1 .. Cardinality(S) : i < j => f[i].id < f[j].id
    IN  [i \in 1 .. Cardinality(S) |-> inOrder[i].type]

\* C19: a delete_last_product for P that answers "product deleted" deletes
\* exactly one product and changes no other; and when the open latest
\* reception of P holds electronics, clothes, shoes, added in that order, its
\* ledger afterwards is electronics, clothes.
C19_RemovalKeepsEarlierProducts ==
    [][\A p \in PvzIds :
         ( /\ delete_last_product(employee, p)
           /\ response'.detail = ProductDeleted )
         => /\ \E d \in product : product' = product \ {d}
            /\ \A r \in LatestReceptions(p) :
                  ( /\ r.status = in_progress
                    /\ Ledger(product, r.id) = <<"electonic", "clothes", "shoes">> )
                  => Ledger(product', r.id) = <<"electonic", "clothes">>
      ]_vars

\* C20: when the last calls of both clients are close_reception calls that
\* ran to an answer of "closed" or "already closed or absent", all against
\* the one open reception of one pickup point (the table holds that reception
\* and the close rows these calls inserted, all of pairwise distinct
\* dateTimes) and one of them was answered "closed", then exactly one was, as
\* in each of the two sequential orders of the calls.
C20_ConcurrentCloseExactlyOneSucceeds ==
    LET closed == {c \in Clients :
                     result[c] = Response("close_reception", HTTP_200_OK,
                                          ReceptionClosed)}
        conflict == {c \in Clients :
                       result[c] = Response("close_reception", HTTP_400_BAD_REQUEST,
                                            AlreadyClosedOrAbsent)}
    IN  ( /\ \A c \in Clients : pc[c] = "idle"
          /\ closed \cup conflict = Clients /\ closed # {}
          /\ Cardinality({r \in reception : r.status = in_progress}) = 1
          /\ Cardinality(reception) = 1 + Cardinality(closed)
          /\ \A r1, r2 \in reception :
                r1.pvzId = r2.pvzId /\ (r1.dateTime = r2.dateTime => r1 = r2) )
        => Cardinality(closed) = 1

\* The step answers 403 "access denied" for handler op and changes no table.
Forbidden(op) ==
    /\ Answered(op, HTTP_403_FORBIDDEN, AccessDenied)
    /\ StoreUnchanged
    /\ productSeq' = productSeq

\* C21: a create_pvz_ by a caller who is not a moderator, and a
\* create_reception, create_product, delete_last_product or close_reception
\* by a caller who is not an employee, is answered 403 "access denied" in
\* every state of the tables (the answer does not depend on them) and leaves
\* the tables unchanged.
C21_WrongRoleIsRejected ==
    [][/\ (Serves("create_pvz") /\ create_pvz_(employee))
          => Forbidden("create_pvz")
       /\ \A p \in PvzIds :
            /\ (Serves("create_reception") /\ create_reception(moderator, p))
               => Forbidden("create_reception")
            /\ (Serves("close_reception") /\ close_reception(moderator, p))
               => Forbidden("close_reception")
            /\ (Serves("delete_last_product") /\ delete_last_product(moderator, p))
               => Forbidden("delete_last_product")
            /\ \A t \in ProductType :
                  (Serves("create_product") /\ create_product(moderator, p, t))
                  => Forbidden("create_product")
      ]_vars

\* C21 witness: a create_reception was answered "access denied" while an
\* existing pickup point has no open latest reception, so that the same
\* request of an employee would have inserted a row.
C21_Witness ==
    /\ response = Response("create_reception", HTTP_403_FORBIDDEN, AccessDenied)
    /\ \E p \in pvztable : LatestAbsentOrClosed(p)

\* The status codes with which the handlers answer a broken precondition
\* ("open reception exists", "no active reception", "already closed or
\* absent"): the kind of a conflict as the caller sees it.
ConflictCodes == {HTTP_400_BAD_REQUEST}

\* The step is the answer of one of the four handlers to a failed store call.
StorageFailureStep ==
    \E p \in PvzIds, at \in StorageFaults :
       \/ Serves("create_reception") /\ create_reception_except(p, at)
       \/ Serves("close_reception") /\ close_reception_except(p, at)
       \/ Serves("delete_last_product") /\ delete_last_product_except(p, at)
       \/ \E t \in ProductType :
             Serves("create_product") /\ create_product_except(p, t, at)

\* C22: when a store call fails inside create_reception, close_reception,
\* create_product or delete_last_product, the answer is of another kind
\* (status code) than the answer to a conflict, and no table has changed.
C22_StorageFailureIsDistinctAndAtomic ==
    [][StorageFailureStep
         => /\ response'.code \notin ConflictCodes
            /\ StoreUnchanged
            /\ productSeq' = productSeq]_vars

\* C23: for every pickup point id P, get_last_reception_by_pvz(P) is absent
\* exactly when no reception row carries pvzId P; otherwise every row it can
\* return is a stored reception of P whose dateTime no reception of P exceeds.
C23_LastReceptionIsOwnAndNewest ==
    \A p \in PvzIds :
       /\ (NoReception \in get_last_reception_by_pvz(p))
            <=> (\A r \in reception : r.pvzId # p)
       /\ get_last_reception_by_pvz(p) # {}
       /\ \A last \in get_last_reception_by_pvz(p) :
             last # NoReception
             => /\ last \in reception
                /\ last.pvzId = p
                /\ \A r \in reception : r.pvzId = p => r.dateTime <= last.dateTime

\* C23 witness: a pickup point has an older and a newer reception while
\* another pickup point holds a reception newer than both, and a third id has
\* no reception at all.
C23_Witness ==
    \E p \in PvzIds, q \in PvzIds, old \in reception, new \in reception,
       other \in reception :
       /\ p # q
       /\ old.pvzId = p /\ new.pvzId = p /\ other.pvzId = q
       /\ old.dateTime < new.dateTime /\ new.dateTime < other.dateTime
       /\ get_last_reception_by_pvz(p) = {new}

\* The row inserted last for P (ids are handed out in insertion order) is an
\* open row: a create_reception for P has succeeded and no close_reception
\* for P has succeeded since.
OpenedAndNotClosedSince(p) ==
    \E r \in reception :
       /\ r.pvzId = p
       /\ r.status = in_progress
       /\ \A o \in reception : o.pvzId = p => o.id <= r.id

\* C24: after a successful create_reception for P and before the next
\* successful close_reception for P, every create_product for P by an
\* employee is answered 201 and a close_reception for P by an employee is
\* answered 200, however many products the reception holds.
C24_OpenReceptionAcceptsProductsAndClose ==
    [][\A p \in PvzIds :
         OpenedAndNotClosedSince(p)
         => /\ (/\ Serves("create_product")
                /\ \E t \in ProductType : create_product(employee, p, t))
               => Answered("create_product", HTTP_201_CREATED, ProductAdded)
            /\ (Serves("close_reception") /\ close_reception(employee, p))
               => Answered("close_reception", HTTP_200_OK, ReceptionClosed)
      ]_vars

\* The e-mail addresses of the dummy users.
DummyEmails == {dummy_employee_email, dummy_moderator_email}

\* At most one user row carries each dummy e-mail.
OneUserPerDummyEmail ==
    \A u1, u2 \in user :
       (u1.email \in DummyEmails /\ u1.email = u2.email) => u1 = u2

\* C25: a dummy_login for a role gets from get_or_create_dummy_user a user
\* of that role; once a dummy_login for the role has been served, every later
\* one gets the same user and adds no user row; and at most one user row
\* carries each dummy e-mail.
C25_DummyUserIsIdempotent ==
    /\ []OneUserPerDummyEmail
    /\ [][\A role \in RoleType :
            (Serves("dummy_login") /\ dummy_login(role))
            => /\ dummy_user'[role].role = role
               /\ dummy_user[role] # NoUser
                  => /\ dummy_user'[role] = dummy_user[role]
                     /\ user' = user]_vars

\* C26: a pvz_list whose start_date is later than its end_date (both well
\* formed) is refused with 400 and returns no listing.
C26_InvertedDateRangeIsRefused ==
    [][\A start_date \in 0 .. MaxClock, end_date \in 0 .. MaxClock :
         (/\ start_date > end_date
          /\ Serves("pvz_list")
          /\ \E page \in 1 .. MaxPage, limit \in 1 .. MaxLimit :
                pvz_list(start_date, end_date, page, limit))
         => /\ response'.code = HTTP_400_BAD_REQUEST
            /\ listed' = NoListing]_vars

\* C27: right after create_reception_for_pvz or close_reception_for_pvz has
\* inserted a reception row for P, get_last_reception_by_pvz(P) returns that
\* row and no other, also when an earlier reception of P has the same dateTime.
C27_NewRowIsLatest ==
    [][\A p \in PvzIds :
         \A new \in reception' \ reception :
            new.pvzId = p => get_last_reception_by_pvz(p)' = {new}]_vars

\* A close row of r's pickup point was inserted after r: r has been closed.
CloseCommitted(r) ==
    \E c \in reception :
       c.pvzId = r.pvzId /\ c.status = close /\ c.id > r.id

\* C28: in the concurrent service, when a product row is committed its
\* reception is an open reception whose close has not been committed.  (The
\* receptions carry pairwise distinct dateTimes, so that "latest" is not in
\* question.)
C28_NoProductAfterCloseCommitted ==
    [][DistinctTimestamps(reception)
       => \A new \in product' \ product :
             \E r \in reception :
                /\ r.id = new.receptionId
                /\ r.status = in_progress
                /\ ~CloseCommitted(r)]_vars

\* C29: in the concurrent service, every delete_last_product that answers
\* "product deleted" has removed one product row that was in the table until
\* then, so that the deletions reported equal the rows removed.
C29_EveryReportedDeletionRemovesAProduct ==
    [][\A c \in Clients :
         (/\ delete_last_product_delete(c)
          /\ result'[c] = Response("delete_last_product", HTTP_200_OK,
                                   ProductDeleted))
         => /\ last_prod[c] \in product
            /\ product' = product \ {last_prod[c]}]_vars

\* Every reception belongs to a stored pickup point and every product to a
\* stored reception.
ReferentialIntegrity ==
    /\ \A r \in reception : r.pvzId \in pvztable
    /\ \A x \in product : \E r \in reception : r.id = x.receptionId

\* C30: referential integrity holds in every reachable state, and a
\* create_reception or close_reception for an id that is not a stored pickup
\* point inserts no reception row.
C30_ReferentialIntegrity ==
    /\ []ReferentialIntegrity
    /\ [][\A p \in PvzIds \ pvztable :
            ( \/ Serves("create_reception") /\ create_reception(employee, p)
              \/ Serves("close_reception") /\ close_reception(employee, p) )
            => reception' = reception]_vars

\* C30 witness: a create_reception for an id that is no pickup point was
\* refused by the foreign key while receptions and products are stored.
C30_Witness ==
    /\ response = Response("create_reception", HTTP_400_BAD_REQUEST, BadRequest)
    /\ PvzIds \ pvztable # {}
    /\ reception # {}
    /\ product # {}

\* The step leaves the pickup points as they are and, for every pickup point
\* id other than p, its reception rows and the product rows of its receptions.
OnlyTouches(p) ==
    /\ pvztable' = pvztable
    /\ \A q \in PvzIds \ {p} :
          /\ {r \in reception' : r.pvzId = q} = {r \in reception : r.pvzId = q}
          /\ {x \in product' : \E r \in reception' :
                                r.id = x.receptionId /\ r.pvzId = q}
             = {x \in product : \E r \in reception :
                                r.id = x.receptionId /\ r.pvzId = q}

\* C31: a create_reception, close_reception, create_product or
\* delete_last_product for pickup point P, whatever its answer, leaves the
\* receptions and products of every other pickup point unchanged and leaves
\* the set of pickup points unchanged.
C31_OtherPickupPointsUntouched ==
    [][\A p \in PvzIds, role \in RoleType :
         /\ (Serves("create_reception") /\ create_reception(role, p))
            => OnlyTouches(p)
         /\ (Serves("close_reception") /\ close_reception(role, p))
            => OnlyTouches(p)
         /\ (Serves("delete_last_product") /\ delete_last_product(role, p))
            => OnlyTouches(p)
         /\ \A t \in ProductType :
               (Serves("create_product") /\ create_product(role, p, t))
               => OnlyTouches(p)
      ]_vars

\* C31 witness: a delete_last_product found the open reception of one pickup
\* point empty while a reception of another pickup point holds a product.
C31_Witness ==
    /\ response = Response("delete_last_product", HTTP_200_OK, NoProductsLeft)
    /\ \E p \in pvztable, q \in pvztable, x \in product, r \in reception :
          /\ p # q
          /\ r.id = x.receptionId /\ r.pvzId = q
          /\ LatestOpen(p)
          /\ \A o \in LatestReceptions(p) :
                \A y \in product : y.receptionId # o.id

====
